---- MODULE Spec2Model ----
(***************************************************************************)
(* Model of backend/main.py of the AI Agent Workbench: the four in-memory  *)
(* stores (agent_configs, agent_instances, conversations, traces), the     *)
(* CRUD handlers, the batch run (run_agent + run_agent_task) and the       *)
(* WebSocket streaming session (stream_agent_run).                         *)
(*                                                                         *)
(* The handlers are asyncio coroutines on one event loop: the code between *)
(* two awaits that really suspend runs atomically, so every action below   *)
(* is one such stretch of code.  get_agent_instance and setup_azure_openai *)
(* contain no suspending await and are therefore part of the step of their *)
(* caller.                                                                 *)
(***************************************************************************)
EXTENDS Integers, Sequences, FiniteSets, TLC

\* ------------------------------ bounds ---------------------------------
NumAgents == 1        \* agent ids a client may use
NumContents == 2      \* distinct (name, instructions, model, tools) values
NumConvs == 2         \* conversation ids
MaxRuns == 1          \* accepted batch runs
MaxSessions == 1      \* WebSocket connections
MaxEvents == 2        \* events the engine emits in one streamed run
MaxBuilds == 2        \* Agent objects constructed

AgentIds == 1..NumAgents
Contents == 1..NumContents
ConvIds == 1..NumConvs
BatchRuns == 1..MaxRuns
Sessions == 1..MaxSessions
Inputs == {"hi"}
NoId == 0             \* an absent optional id in a request (None)
\* The ids the body of a PUT may carry: those of the path and another one.
BodyIds == 1..(NumAgents + 1)

\* ------------------------------ state ----------------------------------
VARIABLES
    agent_configs,    \* dict: agent id -> stored config (model_dump)
    agent_instances,  \* dict: agent id -> cached Agent
    conversations,    \* dict: conversation id -> list of messages
    traces,           \* dict: run id -> trace
    tasks,            \* background run_agent_task per accepted batch run
    nextRun,          \* number of batch runs accepted so far
    sessions,         \* stream_agent_run coroutine per WebSocket
    nextBuild,        \* number of Agent objects constructed so far
    response          \* the HTTP response of the latest REST call

vars == <<agent_configs, agent_instances, conversations, traces, tasks,
          nextRun, sessions, nextBuild, response>>

\* ---------------------------- dictionaries -----------------------------
Empty == [k \in {} |-> 0]

Put(d, k, v) == [x \in (DOMAIN d) \cup {k} |-> IF x = k THEN v ELSE d[x]]

Del(d, k) == [x \in (DOMAIN d) \ {k} |-> d[x]]

\* ------------------------------ records --------------------------------
\* AgentConfig: id plus the remaining fields, here one abstract value.
AgentConfig(id, content) == [id |-> id, content |-> content]

\* A conversation message; "by" records which run appended it.  The task
\* and session records log in "appended" the roles of the messages the run
\* has appended, which outlives the deletion of the conversation.
Message(role, content, by) == [role |-> role, content |-> content, by |-> by]

BatchTag(r) == <<"run", r>>

StreamTag(s) == <<"ws", s>>

\* A run id for the streaming session that a batch run already has.
StreamRunId_reused(s) == s

\* The run id the streaming session s draws from uuid4() at finalisation.
StreamRunId(s) == MaxRuns + s

IdleTask ==
    [pc |-> "unused", agent_id |-> NoId, conversation_id |-> NoId,
     input |-> "", engine |-> "none", outcome |-> "none", caught |-> "none",
     agent |-> 0, appended |-> <<>>]

IdleSession ==
    [pc |-> "idle", agent_id |-> NoId, conversation_id |-> NoId,
     client_state |-> "CONNECTING", conn |-> "none", sent |-> <<>>,
     events |-> 0, caught |-> "none", agent |-> 0, appended |-> <<>>]

Init ==
    /\ agent_configs = Empty
    /\ agent_instances = Empty
    /\ conversations = Empty
    /\ traces = Empty
    /\ tasks = [r \in BatchRuns |-> IdleTask]
    /\ nextRun = 0
    /\ sessions = [s \in Sessions |-> IdleSession]
    /\ nextBuild = 0
    /\ response = [op |-> "none", status |-> 0]

Reply(op, status) == [op |-> op, status |-> status]

\* --------------------------- configuration -----------------------------
\* uuid4() as the default of AgentConfig.id: an id nothing refers to.
FreshAgentIds ==
    {a \in AgentIds :
        /\ a \notin DOMAIN agent_configs
        /\ a \notin DOMAIN agent_instances
        /\ \A r \in BatchRuns : tasks[r].agent_id # a
        /\ \A s \in Sessions : sessions[s].agent_id # a}

create_agent(agent_config) ==
    /\ agent_configs' = Put(agent_configs, agent_config.id, agent_config)
    /\ response' = Reply("create_agent", 200)
    /\ UNCHANGED <<agent_instances, conversations, traces, tasks, nextRun,
                   sessions, nextBuild>>

\* GET /api/agents/{agent_id}: the config, or 404.
get_agent(agent_id) ==
    IF agent_id \notin DOMAIN agent_configs
    THEN [status |-> 404, body |-> AgentConfig(NoId, 0)]
    ELSE [status |-> 200, body |-> agent_configs[agent_id]]

\* GET /api/agents: the stored configs.
list_agents == {agent_configs[k] : k \in DOMAIN agent_configs}

\* update_agent without the assignment of line 202: the config is stored
\* under the id its body carries.
update_agent_keeps_body_id(agent_id, agent_config) ==
    IF agent_id \notin DOMAIN agent_configs
    THEN /\ response' = Reply("update_agent", 404)
         /\ UNCHANGED <<agent_configs, agent_instances, conversations, traces,
                        tasks, nextRun, sessions, nextBuild>>
    ELSE /\ agent_configs' =
                Put(agent_configs, agent_config.id, agent_config)
         /\ agent_instances' = Del(agent_instances, agent_id)
         /\ response' = Reply("update_agent", 200)
         /\ UNCHANGED <<conversations, traces, tasks, nextRun, sessions,
                        nextBuild>>

\* update_agent without the eviction of lines 207-208.
update_agent_keeps_instance(agent_id, agent_config) ==
    IF agent_id \notin DOMAIN agent_configs
    THEN /\ response' = Reply("update_agent", 404)
         /\ UNCHANGED <<agent_configs, agent_instances, conversations, traces,
                        tasks, nextRun, sessions, nextBuild>>
    ELSE /\ agent_configs' =
                Put(agent_configs, agent_id,
                    AgentConfig(agent_id, agent_config.content))
         /\ response' = Reply("update_agent", 200)
         /\ UNCHANGED <<agent_instances, conversations, traces, tasks,
                        nextRun, sessions, nextBuild>>

update_agent(agent_id, agent_config) ==
    IF agent_id \notin DOMAIN agent_configs
    THEN /\ response' = Reply("update_agent", 404)
         /\ UNCHANGED <<agent_configs, agent_instances, conversations, traces,
                        tasks, nextRun, sessions, nextBuild>>
    ELSE /\ agent_configs' =
                Put(agent_configs, agent_id,
                    AgentConfig(agent_id, agent_config.content))
         /\ agent_instances' = Del(agent_instances, agent_id)
         /\ response' = Reply("update_agent", 200)
         /\ UNCHANGED <<conversations, traces, tasks, nextRun, sessions,
                        nextBuild>>

\* delete_agent without the eviction of lines 219-221.
delete_agent_keeps_instance(agent_id) ==
    IF agent_id \notin DOMAIN agent_configs
    THEN /\ response' = Reply("delete_agent", 404)
         /\ UNCHANGED <<agent_configs, agent_instances, conversations, traces,
                        tasks, nextRun, sessions, nextBuild>>
    ELSE /\ agent_configs' = Del(agent_configs, agent_id)
         /\ response' = Reply("delete_agent", 200)
         /\ UNCHANGED <<agent_instances, conversations, traces, tasks,
                        nextRun, sessions, nextBuild>>

delete_agent(agent_id) ==
    IF agent_id \notin DOMAIN agent_configs
    THEN /\ response' = Reply("delete_agent", 404)
         /\ UNCHANGED <<agent_configs, agent_instances, conversations, traces,
                        tasks, nextRun, sessions, nextBuild>>
    ELSE /\ agent_configs' = Del(agent_configs, agent_id)
         /\ agent_instances' = Del(agent_instances, agent_id)
         /\ response' = Reply("delete_agent", 200)
         /\ UNCHANGED <<conversations, traces, tasks, nextRun, sessions,
                        nextBuild>>

\* ------------------------- agent instance cache -------------------------
\* Agent(name, instructions, model, tools): a new object, built from the
\* stored config; "n" is the object's identity.
Agent(config, n) == [cfg |-> config.content, n |-> n]

\* get_agent_instance without the cache lookup of lines 419-420.
get_agent_instance_always_builds(agent_id) ==
    IF agent_id \notin DOMAIN agent_configs
    THEN [exc |-> "HTTP404", agent |-> Agent(AgentConfig(NoId, 0), 0),
          instances |-> agent_instances, built |-> nextBuild]
    ELSE [exc |-> "none",
          agent |-> Agent(agent_configs[agent_id], nextBuild + 1),
          instances |-> Put(agent_instances, agent_id,
                            Agent(agent_configs[agent_id], nextBuild + 1)),
          built |-> nextBuild + 1]

\* get_agent_instance: what it raises, the Agent it returns, and the cache
\* and the number of constructed objects it leaves behind.
get_agent_instance(agent_id) ==
    IF agent_id \in DOMAIN agent_instances
    THEN [exc |-> "none", agent |-> agent_instances[agent_id],
          instances |-> agent_instances, built |-> nextBuild]
    ELSE IF agent_id \notin DOMAIN agent_configs
    THEN [exc |-> "HTTP404", agent |-> Agent(AgentConfig(NoId, 0), 0),
          instances |-> agent_instances, built |-> nextBuild]
    ELSE [exc |-> "none",
          agent |-> Agent(agent_configs[agent_id], nextBuild + 1),
          instances |-> Put(agent_instances, agent_id,
                            Agent(agent_configs[agent_id], nextBuild + 1)),
          built |-> nextBuild + 1]

\* --------------------------- conversations -----------------------------
\* uuid4() as a conversation id: an id nothing refers to.
FreshConvIds ==
    {c \in ConvIds :
        /\ c \notin DOMAIN conversations
        /\ \A r \in BatchRuns : tasks[r].conversation_id # c
        /\ \A s \in Sessions : sessions[s].conversation_id # c}

\* conversations[conversation_id].append(message); the caller has checked
\* that the key exists.
AppendTo(convs, conversation_id, message) ==
    Put(convs, conversation_id, Append(convs[conversation_id], message))

delete_conversation(conversation_id) ==
    IF conversation_id \notin DOMAIN conversations
    THEN /\ response' = Reply("delete_conversation", 404)
         /\ UNCHANGED <<agent_configs, agent_instances, conversations, traces,
                        tasks, nextRun, sessions, nextBuild>>
    ELSE /\ conversations' = Del(conversations, conversation_id)
         /\ response' = Reply("delete_conversation", 200)
         /\ UNCHANGED <<agent_configs, agent_instances, traces, tasks,
                        nextRun, sessions, nextBuild>>

\* ------------------------------ batch run ------------------------------
\* run_agent with the conversation initialised (lines 240-241) before the
\* existence check of lines 232-233.
run_agent_late_check(agent_id, input, conversation_id, uuid) ==
    LET run_id == nextRun + 1
        cid == IF conversation_id # NoId THEN conversation_id ELSE uuid
        convs == IF cid \notin DOMAIN conversations
                 THEN Put(conversations, cid, <<>>)
                 ELSE conversations
    IN  IF agent_id \notin DOMAIN agent_configs
        THEN /\ response' = Reply("run_agent", 404)
             /\ conversations' = convs
             /\ UNCHANGED <<agent_configs, agent_instances, traces, tasks,
                            nextRun, sessions, nextBuild>>
        ELSE /\ nextRun < MaxRuns
             /\ nextRun' = run_id
             /\ conversations' =
                    AppendTo(convs, cid, Message("user", input, BatchTag(run_id)))
             /\ tasks' = [tasks EXCEPT ![run_id] =
                    [IdleTask EXCEPT !.pc = "scheduled", !.agent_id = agent_id,
                                     !.conversation_id = cid, !.input = input,
                                     !.appended = <<"user">>]]
             /\ response' = Reply("run_agent", 200)
             /\ UNCHANGED <<agent_configs, agent_instances, traces, sessions,
                            nextBuild>>

\* POST /api/run.  conversation_id is the request's optional field and uuid
\* the value uuid4() returns when that field is absent.
run_agent(agent_id, input, conversation_id, uuid) ==
    IF agent_id \notin DOMAIN agent_configs
    THEN /\ response' = Reply("run_agent", 404)
         /\ UNCHANGED <<agent_configs, agent_instances, conversations, traces,
                        tasks, nextRun, sessions, nextBuild>>
    ELSE LET run_id == nextRun + 1
             cid == IF conversation_id # NoId THEN conversation_id ELSE uuid
             convs == IF cid \notin DOMAIN conversations
                      THEN Put(conversations, cid, <<>>)
                      ELSE conversations
         IN  /\ nextRun < MaxRuns
             /\ nextRun' = run_id
             /\ conversations' =
                    AppendTo(convs, cid, Message("user", input, BatchTag(run_id)))
             /\ tasks' = [tasks EXCEPT ![run_id] =
                    [IdleTask EXCEPT !.pc = "scheduled", !.agent_id = agent_id,
                                     !.conversation_id = cid, !.input = input,
                                     !.appended = <<"user">>]]
             /\ response' = Reply("run_agent", 200)
             /\ UNCHANGED <<agent_configs, agent_instances, traces, sessions,
                            nextBuild>>

\* The except clause of run_agent_task (lines 287-293) for the exception
\* exc: the conversations it leaves and the task's final record.  The append
\* raises KeyError when the conversation is gone, and nothing catches it.
run_agent_task_except(run_id, t, convs, exc) ==
    IF t.conversation_id \in DOMAIN convs
    THEN [convs |-> AppendTo(convs, t.conversation_id,
                             Message("system", "Error", BatchTag(run_id))),
          task |-> [t EXCEPT !.pc = "done", !.outcome = "handled",
                             !.caught = exc,
                             !.appended = Append(@, "system")]]
    ELSE [convs |-> convs,
          task |-> [t EXCEPT !.pc = "done", !.outcome = "escaped",
                             !.caught = exc]]

\* run_agent_task up to the suspension in Runner.run (lines 266-271).
run_agent_task_start(run_id) ==
    LET t == tasks[run_id]
        got == get_agent_instance(t.agent_id)
        ex == run_agent_task_except(run_id, t, conversations, got.exc)
    IN  /\ t.pc = "scheduled"
        /\ got.built <= MaxBuilds
        /\ agent_instances' = got.instances
        /\ nextBuild' = got.built
        /\ IF got.exc # "none"
           THEN /\ conversations' = ex.convs
                /\ tasks' = [tasks EXCEPT ![run_id] = ex.task]
           ELSE /\ tasks' = [tasks EXCEPT ![run_id] =
                       [t EXCEPT !.pc = "running", !.agent = got.agent.n]]
                /\ UNCHANGED conversations
        /\ UNCHANGED <<agent_configs, traces, nextRun, sessions, response>>

\* The continuation with the trace stored (lines 280-284) before the
\* assistant message is appended (lines 274-277).
run_agent_task_resume_trace_first(run_id, raised) ==
    LET t0 == tasks[run_id]
        t == [t0 EXCEPT !.engine = IF raised THEN "raised" ELSE "returned"]
        cid == t.conversation_id
    IN  /\ t0.pc = "running"
        /\ IF raised
           THEN LET ex == run_agent_task_except(run_id, t, conversations,
                                                "Engine")
                IN  /\ conversations' = ex.convs
                    /\ tasks' = [tasks EXCEPT ![run_id] = ex.task]
                    /\ UNCHANGED traces
           ELSE IF cid \notin DOMAIN conversations
           THEN LET ex == run_agent_task_except(run_id, t, conversations,
                                                "KeyError")
                IN  /\ conversations' = ex.convs
                    /\ tasks' = [tasks EXCEPT ![run_id] = ex.task]
                    /\ traces' = Put(traces, run_id, [by |-> BatchTag(run_id)])
           ELSE /\ conversations' =
                       AppendTo(conversations, cid,
                                Message("assistant", "output", BatchTag(run_id)))
                /\ traces' = Put(traces, run_id, [by |-> BatchTag(run_id)])
                /\ tasks' = [tasks EXCEPT ![run_id] =
                       [t EXCEPT !.pc = "done", !.outcome = "completed",
                                 !.appended = Append(@, "assistant")]]
        /\ UNCHANGED <<agent_configs, agent_instances, nextRun, sessions,
                       nextBuild, response>>

\* run_agent_task from the return of Runner.run to its end (lines 271-293);
\* raised tells whether Runner.run raised.
run_agent_task_resume(run_id, raised) ==
    LET t0 == tasks[run_id]
        t == [t0 EXCEPT !.engine = IF raised THEN "raised" ELSE "returned"]
        cid == t.conversation_id
    IN  /\ t0.pc = "running"
        /\ IF raised
           THEN LET ex == run_agent_task_except(run_id, t, conversations,
                                                "Engine")
                IN  /\ conversations' = ex.convs
                    /\ tasks' = [tasks EXCEPT ![run_id] = ex.task]
                    /\ UNCHANGED traces
           ELSE IF cid \notin DOMAIN conversations
           THEN LET ex == run_agent_task_except(run_id, t, conversations,
                                                "KeyError")
                IN  /\ conversations' = ex.convs
                    /\ tasks' = [tasks EXCEPT ![run_id] = ex.task]
                    /\ UNCHANGED traces
           ELSE /\ conversations' =
                       AppendTo(conversations, cid,
                                Message("assistant", "output", BatchTag(run_id)))
                /\ traces' = Put(traces, run_id, [by |-> BatchTag(run_id)])
                /\ tasks' = [tasks EXCEPT ![run_id] =
                       [t EXCEPT !.pc = "done", !.outcome = "completed",
                                 !.appended = Append(@, "assistant")]]
        /\ UNCHANGED <<agent_configs, agent_instances, nextRun, sessions,
                       nextBuild, response>>

\* --------------------------- streaming run -----------------------------
\* The payloads a client may send as its one input message: text that is
\* not JSON, or {input, conversation_id?}.
Payloads ==
    {[json |-> FALSE, input |-> "", conversation_id |-> NoId]} \cup
    {[json |-> TRUE, input |-> i, conversation_id |-> c] :
        i \in Inputs, c \in ConvIds \cup {NoId}}

\* What a send to a client that has gone away raises; it depends on the
\* transport, and only WebSocketDisconnect takes the silent except clause.
SendFailures == {"WebSocketDisconnect", "RuntimeError"}

\* websocket.send_json(message): the exception it raises and the session
\* it leaves.  json_ok is whether the message can be serialised.
send_json(sess, message, json_ok, failure) ==
    IF ~json_ok
    THEN [exc |-> "TypeError", sess |-> sess]
    ELSE IF sess.conn # "open"
    THEN [exc |-> failure, sess |-> sess]
    ELSE [exc |-> "none", sess |-> [sess EXCEPT !.sent = Append(@, message)]]

\* Where an exception raised inside the try block of stream_agent_run
\* takes the session: the except clause that matches it (lines 379-383).
stream_raise(sess, exc) ==
    IF exc = "WebSocketDisconnect"
    THEN [sess EXCEPT !.pc = "finally", !.caught = exc]
    ELSE [sess EXCEPT !.pc = "except", !.caught = exc]

\* websocket.accept() (line 298).
stream_accept(s, agent_id) ==
    /\ sessions[s].pc = "idle"
    /\ sessions' = [sessions EXCEPT ![s] =
           [@ EXCEPT !.pc = "receive", !.agent_id = agent_id,
                     !.client_state = "CONNECTED", !.conn = "open"]]
    /\ UNCHANGED <<agent_configs, agent_instances, conversations, traces,
                   tasks, nextRun, nextBuild, response>>

\* The client closes the connection.
client_disconnect(s) ==
    /\ sessions[s].conn = "open"
    /\ sessions[s].pc # "done"
    /\ sessions' = [sessions EXCEPT ![s].conn = "client_gone"]
    /\ UNCHANGED <<agent_configs, agent_instances, conversations, traces,
                   tasks, nextRun, nextBuild, response>>

\* The prepare step with the user message appended (lines 315-323) before
\* the agent is resolved (line 313).
stream_prepare_late_resolve(s, payload, uuid) ==
    LET sess == sessions[s]
        got == get_agent_instance(sess.agent_id)
        cid == IF payload.conversation_id # NoId
               THEN payload.conversation_id ELSE uuid
        convs == IF cid \notin DOMAIN conversations
                 THEN Put(conversations, cid, <<>>)
                 ELSE conversations
    IN  /\ sess.pc = "receive"
        /\ IF sess.conn # "open"
           THEN /\ sessions' = [sessions EXCEPT ![s] =
                       stream_raise([sess EXCEPT !.client_state = "DISCONNECTED"],
                                    "WebSocketDisconnect")]
                /\ UNCHANGED <<agent_instances, nextBuild, conversations>>
           ELSE IF ~payload.json
           THEN /\ sessions' = [sessions EXCEPT ![s] =
                       stream_raise(sess, "JSONDecodeError")]
                /\ UNCHANGED <<agent_instances, nextBuild, conversations>>
           ELSE /\ got.built <= MaxBuilds
                /\ agent_instances' = got.instances
                /\ nextBuild' = got.built
                /\ IF got.exc # "none"
                   THEN /\ sessions' = [sessions EXCEPT ![s] =
                               stream_raise([sess EXCEPT !.conversation_id = cid,
                                                         !.appended = <<"user">>],
                                            got.exc)]
                        /\ conversations' =
                               AppendTo(convs, cid,
                                        Message("user", payload.input,
                                                StreamTag(s)))
                   ELSE /\ conversations' =
                               AppendTo(convs, cid,
                                        Message("user", payload.input,
                                                StreamTag(s)))
                        /\ sessions' = [sessions EXCEPT ![s] =
                               [sess EXCEPT !.pc = "stream",
                                            !.conversation_id = cid,
                                            !.agent = got.agent.n,
                                            !.appended = <<"user">>]]
        /\ UNCHANGED <<agent_configs, traces, tasks, nextRun, response>>

\* From receive_text to the first event awaited from the engine (lines
\* 303-329): parse the payload, resolve the agent, append the user message.
stream_prepare(s, payload, uuid) ==
    LET sess == sessions[s]
        got == get_agent_instance(sess.agent_id)
        cid == IF payload.conversation_id # NoId
               THEN payload.conversation_id ELSE uuid
        convs == IF cid \notin DOMAIN conversations
                 THEN Put(conversations, cid, <<>>)
                 ELSE conversations
    IN  /\ sess.pc = "receive"
        /\ IF sess.conn # "open"
           THEN /\ sessions' = [sessions EXCEPT ![s] =
                       stream_raise([sess EXCEPT !.client_state = "DISCONNECTED"],
                                    "WebSocketDisconnect")]
                /\ UNCHANGED <<agent_instances, nextBuild, conversations>>
           ELSE IF ~payload.json
           THEN /\ sessions' = [sessions EXCEPT ![s] =
                       stream_raise(sess, "JSONDecodeError")]
                /\ UNCHANGED <<agent_instances, nextBuild, conversations>>
           ELSE /\ got.built <= MaxBuilds
                /\ agent_instances' = got.instances
                /\ nextBuild' = got.built
                /\ IF got.exc # "none"
                   THEN /\ sessions' = [sessions EXCEPT ![s] =
                               stream_raise([sess EXCEPT !.conversation_id = cid],
                                            got.exc)]
                        /\ UNCHANGED conversations
                   ELSE /\ conversations' =
                               AppendTo(convs, cid,
                                        Message("user", payload.input,
                                                StreamTag(s)))
                        /\ sessions' = [sessions EXCEPT ![s] =
                               [sess EXCEPT !.pc = "stream",
                                            !.conversation_id = cid,
                                            !.agent = got.agent.n,
                                            !.appended = <<"user">>]]
        /\ UNCHANGED <<agent_configs, traces, tasks, nextRun, response>>

\* result.stream_events() resumes (line 329): the engine yields an event,
\* ends the stream, or raises.
stream_next_event(s, what) ==
    LET sess == sessions[s]
    IN  /\ sess.pc = "stream"
        /\ what = "event" => sess.events < MaxEvents
        /\ sessions' = [sessions EXCEPT ![s] =
               CASE what = "event" ->
                        [sess EXCEPT !.pc = "forward", !.events = @ + 1]
                 [] what = "end" -> [sess EXCEPT !.pc = "final"]
                 [] OTHER -> stream_raise(sess, "Engine")]
        /\ UNCHANGED <<agent_configs, agent_instances, conversations, traces,
                       tasks, nextRun, nextBuild, response>>

\* The forwarding step with an event that cannot be serialised skipped
\* instead of raised.
stream_forward_skips_failure(s, json_ok, failure) ==
    LET sess == sessions[s]
        snd == send_json(sess, <<"event", sess.events>>, json_ok, failure)
    IN  /\ sess.pc = "forward"
        /\ sessions' = [sessions EXCEPT ![s] =
               IF snd.exc \in {"none", "TypeError"}
               THEN [snd.sess EXCEPT !.pc = "stream"]
               ELSE stream_raise(snd.sess, snd.exc)]
        /\ UNCHANGED <<agent_configs, agent_instances, conversations, traces,
                       tasks, nextRun, nextBuild, response>>

\* The send_json that forwards one event (lines 353-356).
stream_forward(s, json_ok, failure) ==
    LET sess == sessions[s]
        snd == send_json(sess, <<"event", sess.events>>, json_ok, failure)
    IN  /\ sess.pc = "forward"
        /\ sessions' = [sessions EXCEPT ![s] =
               IF snd.exc = "none"
               THEN [snd.sess EXCEPT !.pc = "stream"]
               ELSE stream_raise(snd.sess, snd.exc)]
        /\ UNCHANGED <<agent_configs, agent_instances, conversations, traces,
                       tasks, nextRun, nextBuild, response>>

\* The finalisation with the trace stored (lines 371-376) before the
\* assistant message is appended (lines 365-368).
stream_finalize_trace_first(s, failure) ==
    LET sess == sessions[s]
        snd == send_json(sess, <<"final_output", 0>>, TRUE, failure)
        cid == sess.conversation_id
    IN  /\ sess.pc = "final"
        /\ IF snd.exc # "none"
           THEN /\ sessions' = [sessions EXCEPT ![s] =
                       stream_raise(snd.sess, snd.exc)]
                /\ UNCHANGED <<conversations, traces>>
           ELSE IF cid \notin DOMAIN conversations
           THEN /\ sessions' = [sessions EXCEPT ![s] =
                       stream_raise(snd.sess, "KeyError")]
                /\ traces' = Put(traces, StreamRunId(s), [by |-> StreamTag(s)])
                /\ UNCHANGED conversations
           ELSE /\ conversations' =
                       AppendTo(conversations, cid,
                                Message("assistant", "output", StreamTag(s)))
                /\ traces' = Put(traces, StreamRunId(s), [by |-> StreamTag(s)])
                /\ sessions' = [sessions EXCEPT ![s] =
                       [snd.sess EXCEPT !.pc = "finally",
                                        !.appended = Append(@, "assistant")]]
        /\ UNCHANGED <<agent_configs, agent_instances, tasks, nextRun,
                       nextBuild, response>>

\* From the send of final_output to the end of the try block (lines
\* 359-378).
stream_finalize(s, failure) ==
    LET sess == sessions[s]
        snd == send_json(sess, <<"final_output", 0>>, TRUE, failure)
        cid == sess.conversation_id
    IN  /\ sess.pc = "final"
        /\ IF snd.exc # "none"
           THEN /\ sessions' = [sessions EXCEPT ![s] =
                       stream_raise(snd.sess, snd.exc)]
                /\ UNCHANGED <<conversations, traces>>
           ELSE IF cid \notin DOMAIN conversations
           THEN /\ sessions' = [sessions EXCEPT ![s] =
                       stream_raise(snd.sess, "KeyError")]
                /\ UNCHANGED <<conversations, traces>>
           ELSE /\ conversations' =
                       AppendTo(conversations, cid,
                                Message("assistant", "output", StreamTag(s)))
                /\ traces' = Put(traces, StreamRunId(s), [by |-> StreamTag(s)])
                /\ sessions' = [sessions EXCEPT ![s] =
                       [snd.sess EXCEPT !.pc = "finally",
                                        !.appended = Append(@, "assistant")]]
        /\ UNCHANGED <<agent_configs, agent_instances, tasks, nextRun,
                       nextBuild, response>>

\* except Exception (lines 381-383): send the error message.  An exception
\* of this send leaves the handler through the finally clause.
stream_except(s, failure) ==
    LET sess == sessions[s]
        snd == send_json(sess, <<"error", 0>>, TRUE, failure)
    IN  /\ sess.pc = "except"
        /\ sessions' = [sessions EXCEPT ![s] =
               IF snd.exc = "none"
               THEN [snd.sess EXCEPT !.pc = "finally"]
               ELSE [snd.sess EXCEPT !.pc = "finally", !.caught = snd.exc]]
        /\ UNCHANGED <<agent_configs, agent_instances, conversations, traces,
                       tasks, nextRun, nextBuild, response>>

\* finally that closes only after a run without exception.
stream_finally_skips_close(s) ==
    LET sess == sessions[s]
    IN  /\ sess.pc = "finally"
        /\ sessions' = [sessions EXCEPT ![s] =
               IF sess.caught = "none" /\ sess.conn = "open"
               THEN [sess EXCEPT !.pc = "done", !.conn = "closed"]
               ELSE [sess EXCEPT !.pc = "done"]]
        /\ UNCHANGED <<agent_configs, agent_instances, conversations, traces,
                       tasks, nextRun, nextBuild, response>>

\* finally that also stores the run's trace, whatever happened before.
stream_finally_writes_trace(s) ==
    LET sess == sessions[s]
    IN  /\ sess.pc = "finally"
        /\ traces' = Put(traces, StreamRunId(s), [by |-> StreamTag(s)])
        /\ sessions' = [sessions EXCEPT ![s] =
               IF sess.client_state # "DISCONNECTED" /\ sess.conn = "open"
               THEN [sess EXCEPT !.pc = "done", !.conn = "closed"]
               ELSE [sess EXCEPT !.pc = "done"]]
        /\ UNCHANGED <<agent_configs, agent_instances, conversations, tasks,
                       nextRun, nextBuild, response>>

\* finally (lines 384-386): close unless the client is known to be gone.
stream_finally(s) ==
    LET sess == sessions[s]
    IN  /\ sess.pc = "finally"
        /\ sessions' = [sessions EXCEPT ![s] =
               IF sess.client_state # "DISCONNECTED" /\ sess.conn = "open"
               THEN [sess EXCEPT !.pc = "done", !.conn = "closed"]
               ELSE [sess EXCEPT !.pc = "done"]]
        /\ UNCHANGED <<agent_configs, agent_instances, conversations, traces,
                       tasks, nextRun, nextBuild, response>>

\* ------------------------------ requests -------------------------------
CreateAgent ==
    \E id \in AgentIds \cup {NoId}, content \in Contents :
        \E uuid \in (IF id = NoId THEN FreshAgentIds ELSE {id}) :
            create_agent(AgentConfig(uuid, content))

UpdateAgent ==
    \E agent_id \in AgentIds, id \in BodyIds, content \in Contents :
        update_agent(agent_id, AgentConfig(id, content))

DeleteAgent == \E agent_id \in AgentIds : delete_agent(agent_id)

DeleteConversation ==
    \E conversation_id \in ConvIds : delete_conversation(conversation_id)

RunAgent ==
    \E agent_id \in AgentIds, input \in Inputs,
       conversation_id \in ConvIds \cup {NoId} :
        \E uuid \in (IF conversation_id = NoId THEN FreshConvIds ELSE {NoId}) :
            run_agent(agent_id, input, conversation_id, uuid)

RunAgentTaskStart == \E run_id \in BatchRuns : run_agent_task_start(run_id)

RunAgentTaskResume ==
    \E run_id \in BatchRuns, raised \in BOOLEAN :
        run_agent_task_resume(run_id, raised)

StreamAccept ==
    \E s \in Sessions, agent_id \in AgentIds : stream_accept(s, agent_id)

ClientDisconnect == \E s \in Sessions : client_disconnect(s)

StreamPrepare ==
    \E s \in Sessions, payload \in Payloads :
        \E uuid \in (IF payload.conversation_id = NoId
                     THEN FreshConvIds ELSE {NoId}) :
            stream_prepare(s, payload, uuid)

StreamNextEvent ==
    \E s \in Sessions, what \in {"event", "end", "raise"} :
        stream_next_event(s, what)

StreamForward ==
    \E s \in Sessions, json_ok \in BOOLEAN, failure \in SendFailures :
        stream_forward(s, json_ok, failure)

StreamFinalize ==
    \E s \in Sessions, failure \in SendFailures : stream_finalize(s, failure)

StreamExcept ==
    \E s \in Sessions, failure \in SendFailures : stream_except(s, failure)

StreamFinally == \E s \in Sessions : stream_finally(s)

Next ==
    \/ CreateAgent
    \/ UpdateAgent
    \/ DeleteAgent
    \/ DeleteConversation
    \/ RunAgent
    \/ RunAgentTaskStart
    \/ RunAgentTaskResume
    \/ StreamAccept
    \/ ClientDisconnect
    \/ StreamPrepare
    \/ StreamNextEvent
    \/ StreamForward
    \/ StreamFinalize
    \/ StreamExcept
    \/ StreamFinally

Spec == Init /\ [][Next]_vars

\* =============================== claims ================================
\* The positions in a conversation of the messages with a role and author.
Positions(conv, role, by) ==
    {i \in 1..Len(conv) : conv[i].role = role /\ conv[i].by = by}

\* The stores a REST call may write, and the runs it may schedule.
stores == <<agent_configs, agent_instances, conversations, traces, tasks,
            nextRun, sessions, nextBuild>>

\* C1: once the continuation of an accepted batch run has finished, the run
\* has appended exactly one user message and then exactly one terminal
\* message: assistant when the engine returned, system when it did not.
C1_BatchRunAppendsUserThenTerminal ==
    \A r \in BatchRuns :
        tasks[r].pc = "done" =>
            tasks[r].appended =
                <<"user", IF tasks[r].engine = "returned"
                          THEN "assistant" ELSE "system">>

\* C2: a streaming session that ended without the client disconnecting has
\* sent forwarded events and then exactly one terminal message, final_output
\* or error, and its connection is closed.
C2_StreamEndsWithOneTerminal ==
    \A s \in Sessions :
        (sessions[s].pc = "done" /\ sessions[s].conn # "client_gone") =>
            LET sent == sessions[s].sent
            IN  /\ Len(sent) >= 1
                /\ sent[Len(sent)][1] \in {"final_output", "error"}
                /\ \A i \in 1..(Len(sent) - 1) : sent[i][1] = "event"
                /\ sessions[s].conn = "closed"

\* C3: a submit_run that answers NotFound changes no store, creates no
\* conversation, schedules no run and allots no run id.
C3_SubmitNotFoundChangesNothing ==
    [][(response' # response /\ response' = Reply("run_agent", 404))
          => UNCHANGED stores]_vars

C3_Witness ==
    /\ response = Reply("run_agent", 404)
    /\ conversations = Empty
    /\ nextRun = 0

\* C4: while an id is not in the Configuration Store, it is not listed, get
\* fails NotFound, there is no cached instance for it, and get_or_build
\* fails NotFound and leaves the cache as it is.
C4_DeletedIdHasNoInstance ==
    \A a \in AgentIds :
        a \notin DOMAIN agent_configs =>
            /\ \A cfg \in list_agents : cfg.id # a
            /\ get_agent(a).status = 404
            /\ a \notin DOMAIN agent_instances
            /\ get_agent_instance(a).exc = "HTTP404"
            /\ get_agent_instance(a).instances = agent_instances

\* A batch run submitted before the delete of a config whose instance had
\* been built has resolved its instance after the delete.
C4_Witness ==
    \E r \in BatchRuns :
        /\ tasks[r].caught = "HTTP404"
        /\ tasks[r].agent_id \notin DOMAIN agent_configs
        /\ nextBuild >= 1
        /\ response = Reply("delete_agent", 200)

\* C5: a cached instance is only ever removed, never replaced by another
\* one, and a caller of get_or_build that finds an instance cached receives
\* that instance and constructs none.
C5_OneRetainedInstance ==
    [][/\ \A a \in (DOMAIN agent_instances) \cap (DOMAIN agent_instances') :
              agent_instances'[a] = agent_instances[a]
       /\ \A r \in BatchRuns :
              (/\ tasks[r].pc = "scheduled"
               /\ tasks'[r].pc = "running"
               /\ tasks[r].agent_id \in DOMAIN agent_instances)
              => /\ tasks'[r].agent = agent_instances[tasks[r].agent_id].n
                 /\ nextBuild' = nextBuild
       /\ \A s \in Sessions :
              (/\ sessions[s].pc = "receive"
               /\ sessions'[s].pc = "stream"
               /\ sessions[s].agent_id \in DOMAIN agent_instances)
              => /\ sessions'[s].agent = agent_instances[sessions[s].agent_id].n
                 /\ nextBuild' = nextBuild]_vars

\* A batch run and a streaming session run on the one instance built.
C5_Witness ==
    \E r \in BatchRuns, s \in Sessions :
        /\ tasks[r].pc = "running"
        /\ sessions[s].pc = "stream"
        /\ tasks[r].agent_id = sessions[s].agent_id
        /\ tasks[r].agent = sessions[s].agent
        /\ nextBuild = 1

\* C6: a batch run whose engine invocation raised has appended, after its
\* user message, exactly one system message and no assistant message, and
\* has no RunRecord.
C6_EngineFailureAppendsSystem ==
    \A r \in BatchRuns :
        (tasks[r].pc = "done" /\ tasks[r].engine = "raised") =>
            /\ tasks[r].appended = <<"user", "system">>
            /\ r \notin DOMAIN traces

\* C7: a batch run whose engine invocation returned has, once finished, a
\* RunRecord under its run id and, in its conversation, its user message
\* followed by its assistant message.
C7_EngineSuccessIsRecorded ==
    \A r \in BatchRuns :
        (tasks[r].pc = "done" /\ tasks[r].engine = "returned") =>
            /\ r \in DOMAIN traces
            /\ tasks[r].conversation_id \in DOMAIN conversations
            /\ LET conv == conversations[tasks[r].conversation_id]
               IN  \E i \in Positions(conv, "user", BatchTag(r)) :
                       \E j \in Positions(conv, "assistant", BatchTag(r)) :
                           i < j

\* C8: no streaming session ends with its connection open.
C8_StreamAlwaysCloses ==
    \A s \in Sessions : sessions[s].pc = "done" => sessions[s].conn # "open"

\* A session whose event could not be sent has reported the error and has
\* been closed by the server.
C8_Witness ==
    \E s \in Sessions :
        /\ sessions[s].pc = "done"
        /\ sessions[s].caught = "TypeError"
        /\ sessions[s].conn = "closed"

\* The session has seen the client's disconnect: receive or send raised.
DisconnectObserved(sess) == sess.caught \in SendFailures

\* C9: once a session has observed the client's disconnect it appends no
\* message, writes no trace and sends nothing, and it has sent no error
\* message.
C9_DisconnectAbandonsSilently ==
    [][\A s \in Sessions :
          /\ DisconnectObserved(sessions'[s]) =>
                 \A i \in 1..Len(sessions'[s].sent) :
                     sessions'[s].sent[i][1] # "error"
          /\ DisconnectObserved(sessions[s]) =>
                 /\ sessions'[s].appended = sessions[s].appended
                 /\ sessions'[s].sent = sessions[s].sent
                 /\ (StreamRunId(s) \in DOMAIN traces') =
                        (StreamRunId(s) \in DOMAIN traces)
                 /\ \A c \in DOMAIN conversations' :
                        c \in DOMAIN conversations =>
                            Positions(conversations'[c], "assistant",
                                      StreamTag(s))
                              = Positions(conversations[c], "assistant",
                                          StreamTag(s))]_vars

\* The client left while events were streamed: the session ended with its
\* user message appended, one event sent and nothing else.
C9_Witness ==
    \E s \in Sessions :
        /\ sessions[s].pc = "done"
        /\ sessions[s].caught = "WebSocketDisconnect"
        /\ sessions[s].appended = <<"user">>
        /\ Len(sessions[s].sent) = 1
        /\ StreamRunId(s) \notin DOMAIN traces

\* C10: create does not replace or alter the stored config of an id that is
\* already in the Configuration Store: only update changes a stored config.
C10_CreateNeverOverwrites ==
    [][\A a \in (DOMAIN agent_configs) \cap (DOMAIN agent_configs') :
          agent_configs'[a] # agent_configs[a]
              => response' = Reply("update_agent", 200)]_vars

\* C11: after create(c), get(c.id) returns c; after update(id, c2) on a
\* stored id, get(id) returns c2's fields under the path id, whatever id
\* c2 carries, and the entry of every other id is as it was.
C11_CreateUpdateThenGet ==
    [][/\ \A id \in AgentIds, content \in Contents :
              create_agent(AgentConfig(id, content)) =>
                  (get_agent(id))' =
                      [status |-> 200, body |-> AgentConfig(id, content)]
       /\ \A agent_id \in AgentIds, id \in BodyIds, content \in Contents :
              (/\ agent_id \in DOMAIN agent_configs
               /\ update_agent(agent_id, AgentConfig(id, content)))
              => /\ (get_agent(agent_id))' =
                        [status |-> 200,
                         body |-> AgentConfig(agent_id, content)]
                 /\ DOMAIN agent_configs' = DOMAIN agent_configs
                 /\ \A other \in (DOMAIN agent_configs) \ {agent_id} :
                        agent_configs'[other] = agent_configs[other]]_vars

\* An update has replaced the content a config was created with.
C11_Witness ==
    /\ response = Reply("update_agent", 200)
    /\ \E a \in DOMAIN agent_configs :
           agent_configs[a] = AgentConfig(a, NumContents)

\* C12: a successful update leaves no cached instance for the id, and the
\* next get_or_build constructs a new instance from the updated config; an
\* update that answers NotFound changes neither store nor cache.
C12_UpdateInvalidates ==
    [][\A agent_id \in AgentIds, id \in BodyIds, content \in Contents :
          update_agent(agent_id, AgentConfig(id, content)) =>
              IF agent_id \in DOMAIN agent_configs
              THEN /\ agent_id \notin DOMAIN agent_instances'
                   /\ (get_agent_instance(agent_id))'.exc = "none"
                   /\ (get_agent_instance(agent_id))'.agent.cfg = content
                   /\ (get_agent_instance(agent_id))'.built = nextBuild + 1
              ELSE /\ response' = Reply("update_agent", 404)
                   /\ UNCHANGED <<agent_configs, agent_instances>>]_vars

\* A config was updated while a batch run held its cached instance: the
\* cache is empty and the run still holds the only instance built so far.
C12_Witness ==
    /\ response = Reply("update_agent", 200)
    /\ \E r \in BatchRuns :
           /\ tasks[r].pc = "running"
           /\ tasks[r].agent = 1
           /\ tasks[r].agent_id \in DOMAIN agent_configs
           /\ tasks[r].agent_id \notin DOMAIN agent_instances
    /\ nextBuild = 1

\* The forwarded events among the messages sent on a connection.
IsEvent(message) == message[1] = "event"

Forwarded(sess) == SelectSeq(sess.sent, IsEvent)

\* C13: the events forwarded on a connection are the events the engine has
\* emitted, once each and in emission order; the only emitted event not
\* forwarded is the one being sent or the one whose send raised and ended
\* the run; final_output follows all of them.
C13_EventsForwardedInOrder ==
    \A s \in Sessions :
        LET sess == sessions[s]
            fwd == Forwarded(sess)
        IN  /\ \A i \in 1..Len(fwd) : fwd[i] = <<"event", i>>
            /\ Len(fwd) \in {sess.events - 1, sess.events}
            /\ Len(fwd) < sess.events =>
                   (sess.pc = "forward" \/ sess.caught # "none")
            /\ \A i \in 1..Len(sess.sent) :
                   sess.sent[i][1] = "final_output" =>
                       /\ Len(fwd) = sess.events
                       /\ \A j \in (i + 1)..Len(sess.sent) :
                              ~IsEvent(sess.sent[j])

\* Every event the bound allows was forwarded, then final_output.
C13_Witness ==
    \E s \in Sessions :
        /\ sessions[s].pc = "done"
        /\ sessions[s].events = MaxEvents
        /\ Len(sessions[s].sent) = MaxEvents + 1
        /\ sessions[s].sent[MaxEvents + 1][1] = "final_output"

\* The number of messages with a role and author in the conversation c of
\* a ledger, none when the ledger has no such conversation.
Count(convs, c, role, by) ==
    IF c \in DOMAIN convs THEN Cardinality(Positions(convs[c], role, by)) ELSE 0

\* The last message of a conversation is m.
EndsWith(convs, c, m) ==
    /\ c \in DOMAIN convs
    /\ Len(convs[c]) >= 1
    /\ convs[c][Len(convs[c])] = m

\* C14 as claimed: the ledger is written only by the continuation, so a run
\* that was submitted and has not started has appended nothing, and a run
\* that completed has appended user, then assistant, and has its RunRecord.
C14_LedgerWrittenOnlyByContinuation ==
    \A r \in BatchRuns :
        /\ tasks[r].pc = "scheduled" => tasks[r].appended = <<>>
        /\ tasks[r].outcome = "completed" =>
               /\ tasks[r].appended = <<"user", "assistant">>
               /\ r \in DOMAIN traces

\* C14 as amended: submit_run itself appends the run's user message, as the
\* last message of the run's conversation, and answers "running" without
\* writing a trace; the continuation appends no user message; an assistant
\* message of the run is appended only by the continuation after the
\* engine returned; the RunRecord is written only in the step that has
\* appended that assistant message.
C14_UserAtSubmitAssistantThenTrace ==
    [][\A r \in BatchRuns :
          LET tag == BatchTag(r)
              cid == tasks'[r].conversation_id
          IN  /\ (tasks[r].pc = "unused" /\ tasks'[r].pc = "scheduled") =>
                     /\ EndsWith(conversations', cid,
                                 Message("user", tasks'[r].input, tag))
                     /\ Count(conversations', cid, "user", tag) = 1
                     /\ response' = Reply("run_agent", 200)
                     /\ traces' = traces
              /\ tasks[r].pc # "unused" =>
                     \A c \in ConvIds :
                         Count(conversations', c, "user", tag)
                             <= Count(conversations, c, "user", tag)
              /\ \A c \in ConvIds :
                     Count(conversations', c, "assistant", tag)
                         > Count(conversations, c, "assistant", tag)
                     => /\ tasks[r].pc = "running"
                        /\ tasks'[r].engine = "returned"
                        /\ c = cid
              /\ (r \in DOMAIN traces' /\ r \notin DOMAIN traces) =>
                     /\ EndsWith(conversations', cid,
                                 Message("assistant", "output", tag))
                     /\ Count(conversations', cid, "assistant", tag)
                            = Count(conversations, cid, "assistant", tag) + 1]_vars

\* A completed batch run: user message, assistant message, RunRecord.
C14_Witness ==
    \E r \in BatchRuns :
        /\ tasks[r].outcome = "completed"
        /\ r \in DOMAIN traces
        /\ tasks[r].conversation_id \in DOMAIN conversations
        /\ conversations[tasks[r].conversation_id] =
               <<Message("user", "hi", BatchTag(r)),
                 Message("assistant", "output", BatchTag(r))>>

\* C15: a streaming session whose agent id has neither a stored config nor
\* a cached instance fails while it prepares, with no store written; it
\* has appended nothing and written no trace, the one message it has sent
\* once its except clause is over is an error message, and it ends with the
\* connection closed unless the client has left in the meantime.
C15_StreamUnknownAgent ==
    [][\A s \in Sessions :
          /\ \A payload \in Payloads :
                 \A uuid \in ConvIds \cup {NoId} :
                     (/\ stream_prepare(s, payload, uuid)
                      /\ sessions[s].conn = "open"
                      /\ payload.json
                      /\ sessions[s].agent_id \notin DOMAIN agent_configs
                      /\ sessions[s].agent_id \notin DOMAIN agent_instances)
                     => /\ sessions'[s].caught = "HTTP404"
                        /\ sessions'[s].pc = "except"
                        /\ UNCHANGED <<agent_configs, agent_instances,
                                       conversations, traces, nextBuild>>
          /\ sessions'[s].caught = "HTTP404" =>
                 /\ sessions'[s].appended = <<>>
                 /\ StreamRunId(s) \notin DOMAIN traces'
                 /\ sessions'[s].pc \in {"finally", "done"} =>
                        sessions'[s].sent = <<<<"error", 0>>>>
                 /\ sessions'[s].pc = "done" =>
                        sessions'[s].conn \in {"closed", "client_gone"}]_vars

\* A session for an agent that was never created has ended: one error
\* message, connection closed, no conversation, no trace.
C15_Witness ==
    \E s \in Sessions :
        /\ sessions[s].pc = "done"
        /\ sessions[s].caught = "HTTP404"
        /\ sessions[s].sent = <<<<"error", 0>>>>
        /\ sessions[s].conn = "closed"
        /\ conversations = Empty
        /\ traces = Empty
        /\ agent_configs = Empty

\* The messages of one type among those sent on a connection.
SentOfType(sess, type) ==
    {i \in 1..Len(sess.sent) : sess.sent[i][1] = type}

\* C16: a streaming session that has sent final_output and has ended
\* without the client leaving has appended its user message and then one
\* assistant message, and has written its RunRecord.
C16_FinalOutputIsRecorded ==
    \A s \in Sessions :
        (/\ sessions[s].pc = "done"
         /\ sessions[s].conn # "client_gone"
         /\ SentOfType(sessions[s], "final_output") # {})
        => /\ sessions[s].appended = <<"user", "assistant">>
           /\ StreamRunId(s) \in DOMAIN traces

\* The run that writes under a run id: the batch run of that number, or the
\* streaming session that drew it.
WriterOf(run_id) ==
    IF run_id <= MaxRuns THEN BatchTag(run_id) ELSE StreamTag(run_id - MaxRuns)

\* C17: a stored RunRecord is never changed or removed, and every record is
\* the one its own run wrote.
C17_TracesWriteOnce ==
    [][/\ \A k \in DOMAIN traces :
              k \in DOMAIN traces' /\ traces'[k] = traces[k]
       /\ \A k \in DOMAIN traces' : traces'[k].by = WriterOf(k)]_vars

\* The records of a batch run and of a streaming session have outlived the
\* deletion of their conversations and of the config.
C17_Witness ==
    /\ DOMAIN traces = {1, StreamRunId(1)}
    /\ conversations = Empty
    /\ agent_configs = Empty

\* C18: every cached instance was built from the config stored now under
\* its id.
C18_NoStaleInstance ==
    \A a \in DOMAIN agent_instances :
        /\ a \in DOMAIN agent_configs
        /\ agent_instances[a].cfg = agent_configs[a].content

\* C19: no exception leaves run_agent_task.
C19_NoExceptionEscapesTask ==
    \A r \in BatchRuns : tasks[r].outcome # "escaped"

\* C20: no streaming session has both sent an error message and written a
\* RunRecord.
C20_ErrorExcludesTrace ==
    \A s \in Sessions :
        ~(/\ SentOfType(sessions[s], "error") # {}
          /\ StreamRunId(s) \in DOMAIN traces)

\* A session whose finalisation failed after final_output: it has sent the
\* error message and has no trace.
C20_Witness ==
    \E s \in Sessions :
        /\ sessions[s].pc = "done"
        /\ sessions[s].caught = "KeyError"
        /\ SentOfType(sessions[s], "final_output") # {}
        /\ SentOfType(sessions[s], "error") # {}
        /\ StreamRunId(s) \notin DOMAIN traces
====
